---- MODULE Spec2Model ----
(***************************************************************************)
(* Model of the markdown-downloader MCP server (src/src/index.ts): the     *)
(* configuration store (getConfig / saveConfig), the filename codec        *)
(* (sanitizeFilename / generateFilename) and the five tool handlers of the *)
(* CallToolRequestSchema handler, over a small filesystem.                 *)
(*                                                                         *)
(* Representation.  A path is a sequence of segments (strings); path.join  *)
(* concatenates and normalises ".." and ".".  A URL or a file name is a    *)
(* sequence of one-character strings.  A JavaScript value handed in as a   *)
(* tool argument is a record [t, s]: its typeof and, for a string, its     *)
(* text.  A JavaScript value read from config.json is a record             *)
(* [kind, ddKind, dd]: what it is, the typeof of its downloadDirectory     *)
(* property and, when that is a string, the path.                          *)
(***************************************************************************)
EXTENDS Integers, Sequences, FiniteSets, Bags, TLC

\* ---------------------------------------------------------------- bounds
\* Number of tool requests the host dispatches in one behaviour.
MaxRequests == 2
\* Number of UTC calendar days the clock can show.
MaxDay == 2
\* Length of the URL bodies sanitizeFilename is applied to, a leading scheme
\* not counted.
MaxBodyLen == 2

\* ---------------------------------------------------------------- paths
RECURSIVE NormalizeFrom(_, _)
NormalizeFrom(acc, rest) ==
  IF rest = <<>> THEN acc
  ELSE LET h == Head(rest) t == Tail(rest) IN
       IF h = ".." THEN
         NormalizeFrom(IF acc = <<>> THEN acc ELSE SubSeq(acc, 1, Len(acc) - 1), t)
       ELSE IF h = "." THEN NormalizeFrom(acc, t)
       ELSE NormalizeFrom(Append(acc, h), t)

\* path.normalize of an absolute path
Normalize(p) == NormalizeFrom(<<>>, p)

\* path.join(a, b)
PathJoin(a, b) == Normalize(a \o b)

\* path.dirname of an absolute, normalised path
Dirname(p) == IF p = <<>> THEN p ELSE SubSeq(p, 1, Len(p) - 1)

IsPrefix(a, b) == Len(a) <= Len(b) /\ SubSeq(b, 1, Len(a)) = a

\* the directory p lies inside (or is) the directory root
Inside(root, p) == IsPrefix(root, p)

\* ---------------------------------------------------------------- platform
homedir == <<"home">>

\* process.platform and process.env.APPDATA (<<>> when unset)
Environments ==
  { [platform |-> "linux", APPDATA |-> <<>>],
    [platform |-> "win32", APPDATA |-> <<"home", "AppData">>] }

configBasePath(e) ==
  IF e.platform = "win32"
  THEN PathJoin(IF e.APPDATA # <<>> THEN e.APPDATA ELSE homedir, <<"markdown-downloader">>)
  ELSE PathJoin(homedir, <<".config", "markdown-downloader">>)

CONFIG_DIR(e) == configBasePath(e)

getDefaultDownloadDir(e) ==
  IF e.platform = "win32"
  THEN PathJoin(homedir, <<"Documents", "markdown-downloads">>)
  ELSE PathJoin(homedir, <<".markdown-downloads">>)

\* ---------------------------------------------------------------- the disk
\* Directories and files outside the program's control that the requests name.
RootDir == <<>>
DataDir == <<"data">>
LockedDir == <<"locked">>
MissingDir == <<"data", "missing">>
NotesFile == <<"home", "notes.txt">>

\* regular files on disk that are not artifacts (all writable)
RegularFiles == { NotesFile }

\* fs.ensureDirSync / fs.ensureDir (mkdir -p): succeeds on an existing
\* directory; otherwise everything from the nearest existing ancestor down is
\* created, which needs that ancestor to be a writable directory.
RECURSIVE NearestExisting(_, _)
NearestExisting(d, p) ==
  IF p \in d \/ p = <<>> THEN p ELSE NearestExisting(d, Dirname(p))

Chain(p, from) == { SubSeq(p, 1, n) : n \in (Len(from) + 1)..Len(p) }

\* a mkdir that fails on a directory that is already there
EnsureDir_FailIfExists(d, ro, p) ==
  LET a == NearestExisting(d, p) IN
  IF p \in d THEN [ok |-> FALSE, dirs |-> d]
  ELSE IF \E f \in RegularFiles : IsPrefix(f, p) THEN [ok |-> FALSE, dirs |-> d]
  ELSE IF a \notin d \/ a \in ro THEN [ok |-> FALSE, dirs |-> d]
  ELSE [ok |-> TRUE, dirs |-> d \cup Chain(p, a)]

EnsureDir(d, ro, p) ==
  LET a == NearestExisting(d, p) IN
  IF p \in d THEN [ok |-> TRUE, dirs |-> d]
  ELSE IF \E f \in RegularFiles : IsPrefix(f, p) THEN [ok |-> FALSE, dirs |-> d]
  ELSE IF a \notin d \/ a \in ro THEN [ok |-> FALSE, dirs |-> d]
  ELSE [ok |-> TRUE, dirs |-> d \cup Chain(p, a)]

\* a validation that lets every path through
Access_Always(d, ro, p) == TRUE

\* fs.access(p, W_OK)
Access(d, ro, p) == (p \in d /\ p \notin ro) \/ p \in RegularFiles

\* writing a file: fs.writeFileSync / fs.writeFile of a file in directory dir;
\* present says whether the file is already there, w whether it is writable
CanWriteFile(d, ro, dir, present, w) ==
  IF present THEN w ELSE dir \in d /\ dir \notin ro

\* ---------------------------------------------------------------- JavaScript values
Undefined == [t |-> "undefined", s |-> <<>>]
NotAString == [t |-> "number", s |-> <<>>]
Str(s) == [t |-> "string", s |-> s]

\* an argument check that lets every value through
IsValidParam_Any(a) == TRUE

\* the test  !x || typeof x !== 'string'  of the handlers, negated
IsValidParam(a) == a.t = "string" /\ a.s # <<>>

\* the test  subdirectory && typeof subdirectory === 'string'
IsGiven(a) == a.t = "string" /\ a.s # <<>>

\* what JSON.parse of config.json can yield
JsNull == [kind |-> "null", ddKind |-> "undefined", dd |-> <<>>]
JsNumber == [kind |-> "number", ddKind |-> "undefined", dd |-> <<>>]
JsArray == [kind |-> "array", ddKind |-> "undefined", dd |-> <<>>]
JsEmptyObject == [kind |-> "object", ddKind |-> "undefined", dd |-> <<>>]
JsBadObject == [kind |-> "object", ddKind |-> "number", dd |-> <<>>]
\* interface MarkdownDownloaderConfig
MarkdownDownloaderConfig(p) == [kind |-> "object", ddKind |-> "string", dd |-> p]

\* a usable configuration record: an object whose downloadDirectory is a string
IsConfigRecord(v) == v.kind = "object" /\ v.ddKind = "string"

\* JSON.stringify followed by JSON.parse: an array loses its named properties
JsonRoundTrip(v) == IF v.kind = "array" THEN JsArray ELSE v

\* config.downloadDirectory = directory  (strict mode: throws on null and on
\* a primitive)
AssignThrows(v) == v.kind \in {"null", "number"}
AssignDownloadDirectory(v, p) == [v EXCEPT !.ddKind = "string", !.dd = p]

\* reading config.downloadDirectory throws on null
ReadThrows(v) == v.kind = "null"

\* ---------------------------------------------------------------- config.json
\* exists: the file is there; r, w: it can be read, written; json: its text
\* parses; val: what it parses to
NoFile == [exists |-> FALSE, r |-> FALSE, w |-> FALSE, json |-> FALSE, val |-> JsNull]
FileOf(v, r, w) == [exists |-> TRUE, r |-> r, w |-> w, json |-> TRUE, val |-> v]
GarbageFile == [exists |-> TRUE, r |-> TRUE, w |-> TRUE, json |-> FALSE, val |-> JsNull]

\* fs.writeJsonSync(CONFIG_FILE, v)
WriteJsonSync(d, ro, e, c, v) ==
  IF CanWriteFile(d, ro, CONFIG_DIR(e), c.exists, c.w)
  THEN [ok |-> TRUE,
        cfg |-> [exists |-> TRUE,
                 r |-> IF c.exists THEN c.r ELSE TRUE,
                 w |-> TRUE, json |-> TRUE, val |-> JsonRoundTrip(v)]]
  ELSE [ok |-> FALSE, cfg |-> c]

\* fs.readJsonSync(CONFIG_FILE)
ReadJsonSync(c) ==
  IF c.exists /\ c.r /\ c.json THEN [ok |-> TRUE, val |-> c.val]
  ELSE [ok |-> FALSE, val |-> JsNull]

\* a catch branch that also persists the default it falls back to
Fallback_Rewrite(d, e, c) ==
  [val |-> MarkdownDownloaderConfig(getDefaultDownloadDir(e)), how |-> "fallback",
   dirs |-> d,
   cfg |-> FileOf(MarkdownDownloaderConfig(getDefaultDownloadDir(e)), TRUE, TRUE)]

\* the catch branch of getConfig
Fallback(d, e, c) ==
  [val |-> MarkdownDownloaderConfig(getDefaultDownloadDir(e)), how |-> "fallback",
   dirs |-> d, cfg |-> c]

\* a getConfig whose bootstrap writes config.json but does not create the
\* default download directory
getConfig_NoEnsure(d, ro, e, c) ==
  LET e1 == EnsureDir(d, ro, CONFIG_DIR(e)) IN
  IF ~e1.ok THEN Fallback(d, e, c)
  ELSE IF ~c.exists THEN
    LET defaultConfig == MarkdownDownloaderConfig(getDefaultDownloadDir(e))
        w == WriteJsonSync(e1.dirs, ro, e, c, defaultConfig) IN
    IF ~w.ok THEN Fallback(e1.dirs, e, c)
    ELSE [val |-> defaultConfig, how |-> "bootstrap", dirs |-> e1.dirs, cfg |-> w.cfg]
  ELSE
    LET r == ReadJsonSync(c) IN
    IF ~r.ok THEN Fallback(e1.dirs, e, c)
    ELSE [val |-> r.val, how |-> "read", dirs |-> e1.dirs, cfg |-> c]

\* getConfig(): the value returned, by which path (bootstrap, read, fallback)
\* and the disk afterwards
getConfig(d, ro, e, c) ==
  LET e1 == EnsureDir(d, ro, CONFIG_DIR(e)) IN
  IF ~e1.ok THEN Fallback(d, e, c)
  ELSE IF ~c.exists THEN
    LET defaultConfig == MarkdownDownloaderConfig(getDefaultDownloadDir(e))
        w == WriteJsonSync(e1.dirs, ro, e, c, defaultConfig) IN
    IF ~w.ok THEN Fallback(e1.dirs, e, c)
    ELSE LET e2 == EnsureDir(e1.dirs, ro, defaultConfig.dd) IN
         IF ~e2.ok THEN Fallback(e1.dirs, e, w.cfg)
         ELSE [val |-> defaultConfig, how |-> "bootstrap", dirs |-> e2.dirs, cfg |-> w.cfg]
  ELSE
    LET r == ReadJsonSync(c) IN
    IF ~r.ok THEN Fallback(e1.dirs, e, c)
    ELSE [val |-> r.val, how |-> "read", dirs |-> e1.dirs, cfg |-> c]

\* a save that removes the file it fails to write
saveConfig_Unlink(d, ro, e, c, config) ==
  LET e1 == EnsureDir(d, ro, CONFIG_DIR(e)) IN
  IF ~e1.ok THEN [dirs |-> d, cfg |-> c]
  ELSE LET w == WriteJsonSync(e1.dirs, ro, e, c, config) IN
       IF ~w.ok THEN [dirs |-> e1.dirs, cfg |-> NoFile]
       ELSE [dirs |-> EnsureDir(e1.dirs, ro, config.dd).dirs, cfg |-> w.cfg]

\* saveConfig(config): the disk afterwards; every failure is caught and logged
saveConfig(d, ro, e, c, config) ==
  LET e1 == EnsureDir(d, ro, CONFIG_DIR(e)) IN
  IF ~e1.ok THEN [dirs |-> d, cfg |-> c]
  ELSE LET w == WriteJsonSync(e1.dirs, ro, e, c, config) IN
       IF ~w.ok THEN [dirs |-> e1.dirs, cfg |-> c]
       ELSE [dirs |-> EnsureDir(e1.dirs, ro, config.dd).dirs, cfg |-> w.cfg]

\* ---------------------------------------------------------------- filename codec
Lower == <<"a","b","c","d","e","f","g","h","i","j","k","l","m",
           "n","o","p","q","r","s","t","u","v","w","x","y","z">>
Upper == <<"A","B","C","D","E","F","G","H","I","J","K","L","M",
           "N","O","P","Q","R","S","T","U","V","W","X","Y","Z">>
Digits == <<"0","1","2","3","4","5","6","7","8","9">>

Range(f) == { f[i] : i \in DOMAIN f }

\* the class [a-z0-9] under the i flag
IsAlnum(c) == c \in Range(Lower) \cup Range(Upper) \cup Range(Digits)

\* String.prototype.toLowerCase on one ASCII character
ToLower(c) ==
  IF c \in Range(Upper) THEN Lower[CHOOSE i \in DOMAIN Upper : Upper[i] = c] ELSE c

HttpScheme == <<"h","t","t","p",":","/","/">>
HttpsScheme == <<"h","t","t","p","s",":","/","/">>

\* a regular expression that knows http:// alone
StripScheme_HttpOnly(u) ==
  IF IsPrefix(HttpScheme, u) THEN SubSeq(u, Len(HttpScheme) + 1, Len(u)) ELSE u

\* .replace(/^https?:\/\//, '')
StripScheme(u) ==
  IF IsPrefix(HttpScheme, u) THEN SubSeq(u, Len(HttpScheme) + 1, Len(u))
  ELSE IF IsPrefix(HttpsScheme, u) THEN SubSeq(u, Len(HttpsScheme) + 1, Len(u))
  ELSE u

sanitizeFilename(url) ==
  LET s == StripScheme(url) IN
  [i \in 1..Len(s) |-> ToLower(IF IsAlnum(s[i]) THEN s[i] ELSE "-")]

RECURSIVE Without(_, _)
\* .replace(/-/g, '') and the like: s with every c removed
Without(s, c) ==
  IF s = <<>> THEN s
  ELSE IF Head(s) = c THEN Without(Tail(s), c)
  ELSE <<Head(s)>> \o Without(Tail(s), c)

TwoDigits(n) == <<Digits[(n \div 10) + 1], Digits[(n % 10) + 1]>>

\* new Date().toISOString().split('T')[0] on the day-th day of the run
\* (the run starts on 2026-01-15 UTC)
ISODate(day) == <<"2","0","2","6","-","0","1","-">> \o TwoDigits(day + 14)

\* a file name without the date stamp
generateFilename_NoDate(url, day) == sanitizeFilename(url) \o <<".","m","d">>

generateFilename(url, day) ==
  LET sanitizedUrl == sanitizeFilename(url)
      datestamp == Without(ISODate(day), "-") IN
  sanitizedUrl \o <<"-">> \o datestamp \o <<".","m","d">>

\* ---------------------------------------------------------------- state
VARIABLES
  env,       \* process.platform and process.env, fixed at startup
  readonly,  \* the directories this user cannot write into
  dirs,      \* the directories that exist
  cfg,       \* config.json
  files,     \* the artifacts: records [dir, name, body]
  today,     \* the UTC calendar day the clock shows
  pending,   \* the bag of handler invocations suspended at an await
  out,       \* the outcome of the handler invocation that ended last
  calls,     \* the getConfig / saveConfig calls the last step made, in order
  served,    \* number of requests dispatched so far
  urlBody,   \* the URL body sanitizeFilename is applied to
  sanitized  \* the results: records [scheme, name]

\* the variables of the filename codec
codec == <<urlBody, sanitized>>

vars == <<env, readonly, dirs, cfg, files, today, pending, out, calls, served, codec>>

\* ---------------------------------------------------------------- inputs
ExampleUrl == <<"h","t","t","p",":","/","/","A",".","b">>

Urls == { Undefined, NotAString, Str(<<>>), Str(ExampleUrl) }
Subdirectories == { Undefined, NotAString, Str(<<"sub">>), Str(<<"..", "out">>) }
Directories ==
  { Undefined, NotAString, Str(DataDir), Str(LockedDir), Str(MissingDir), Str(NotesFile) }
Names == { Undefined, NotAString, Str(<<"sub">>), Str(<<"..", "out">>) }

\* what axios.get can come back with
FetchOutcomes ==
  { [ok |-> FALSE, body |-> ""], [ok |-> TRUE, body |-> "# page"],
    [ok |-> TRUE, body |-> "# page, edited"] }

\* ---------------------------------------------------------------- records
\* a suspended handler invocation: where it waits (pc), its arguments, the
\* configuration it read, the path it resolved, and the kinds of I/O it has
\* started
Invocation ==
  [pc |-> "none", op |-> "none", url |-> Undefined, subdirectory |-> Undefined,
   directory |-> Undefined, config |-> JsNull, path |-> <<>>, filename |-> <<>>,
   body |-> "", io |-> {}]

\* the outcome of a handler invocation.  status: "ok" (a result), "isError" (a
\* result marked isError), or the error thrown ("InvalidParams",
\* "MethodNotFound", "TypeError").  path: the path the text names; isText:
\* whether that path is a string at all; file: the file name the text names;
\* entries: the listing; io: the kinds of I/O the invocation performed.
Outcome(op, status, path, isText, file, entries, io) ==
  [op |-> op, status |-> status, path |-> path, isText |-> isText, file |-> file,
   entries |-> entries, io |-> io]

NoOutcome == Outcome("none", "none", <<>>, FALSE, <<>>, {}, {})

Failure(op, path, io) == Outcome(op, "isError", path, TRUE, <<>>, {}, io)

Thrown(op, code) == Outcome(op, code, <<>>, FALSE, <<>>, {}, {})

\* one getConfig call on config.json c: how it returned, what, whether the
\* directory the returned record names existed when it returned, whether
\* config.json was absent before the call (fresh) and whether the call changed
\* it (wrote)
GetConfigCall(c, g) ==
  [fn |-> "getConfig", how |-> g.how, val |-> g.val,
   dirExists |-> IsConfigRecord(g.val) /\ g.val.dd \in g.dirs,
   fresh |-> ~c.exists, wrote |-> g.cfg # c]

\* one saveConfig call on config.json c: the record saved, the disk when it
\* finished
SaveConfigCall(c, config, sv) ==
  [fn |-> "saveConfig", how |-> "save", val |-> config,
   dirExists |-> config.dd \in sv.dirs,
   fresh |-> ~c.exists, wrote |-> sv.cfg # c]

CanDispatch == served < MaxRequests

\* the suspended invocations as a set
Suspended == BagToSet(pending)

\* a handler invocation suspends as r; invocation r resumes and suspends again
\* as q; invocation r ends
Suspend(r) == pending (+) SetToBag({r})
Resume(r, q) == (pending (-) SetToBag({r})) (+) SetToBag({q})
End(r) == pending (-) SetToBag({r})

\* fs.readdir(p): the names in directory p
Readdir(d, c, e, f, p) ==
  { <<q[Len(q)]>> : q \in { x \in d \cup RegularFiles : x # <<>> /\ Dirname(x) = p } }
  \cup { a.name : a \in { x \in f : x.dir = p } }
  \cup (IF c.exists /\ p = CONFIG_DIR(e) THEN { <<"config.json">> } ELSE {})

\* ---------------------------------------------------------------- initial states
BaseDirs == { RootDir, homedir, DataDir, LockedDir }
ConfigDirs(e) == Chain(CONFIG_DIR(e), homedir)
DefaultDirs(e) == Chain(getDefaultDownloadDir(e), homedir)
Disk(d, ro, c) == [dirs |-> d, readonly |-> ro, cfg |-> c]

\* a first start: no config.json, no download directory; the home directory
\* may be one this user cannot write into
FreshDisks(e) ==
  { Disk(BaseDirs \cup d, {RootDir, LockedDir} \cup ro, NoFile) :
      d \in { {}, ConfigDirs(e) }, ro \in { {}, {homedir} } }

\* after earlier runs: config.json as getConfig or saveConfig left it, with
\* the permissions it may have been given since
UsedDisks(e) ==
  { Disk(BaseDirs \cup ConfigDirs(e) \cup DefaultDirs(e), {RootDir, LockedDir}, c) :
      c \in { FileOf(MarkdownDownloaderConfig(getDefaultDownloadDir(e)), TRUE, TRUE),
              FileOf(MarkdownDownloaderConfig(DataDir), TRUE, TRUE),
              FileOf(MarkdownDownloaderConfig(getDefaultDownloadDir(e)), TRUE, FALSE),
              FileOf(MarkdownDownloaderConfig(getDefaultDownloadDir(e)), FALSE, TRUE) } }

\* config.json edited or damaged, or the directory it names removed
DamagedDisks(e) ==
  { Disk(BaseDirs \cup ConfigDirs(e) \cup DefaultDirs(e), {RootDir, LockedDir}, c) :
      c \in { GarbageFile, FileOf(JsNull, TRUE, TRUE), FileOf(JsNumber, TRUE, TRUE),
              FileOf(JsArray, TRUE, TRUE), FileOf(JsEmptyObject, TRUE, TRUE),
              FileOf(JsBadObject, TRUE, TRUE),
              FileOf(MarkdownDownloaderConfig(MissingDir), TRUE, TRUE) } }
  \cup
  { Disk(BaseDirs \cup ConfigDirs(e), {RootDir, LockedDir}, c) :
      c \in { GarbageFile,
              FileOf(MarkdownDownloaderConfig(getDefaultDownloadDir(e)), TRUE, TRUE) } }

\* the platform decides only where config.json and the default directory are:
\* the damaged disks are taken on one platform
InitialDisks(e) ==
  FreshDisks(e) \cup UsedDisks(e)
    \cup (IF e.platform = "win32" THEN {} ELSE DamagedDisks(e))

Init ==
  /\ env \in Environments
  /\ \E disk \in InitialDisks(env) :
       /\ dirs = disk.dirs
       /\ readonly = disk.readonly
       /\ cfg = disk.cfg
  /\ files = {}
  /\ today = 1
  /\ pending = EmptyBag
  /\ out = NoOutcome
  /\ calls = <<>>
  /\ served = 0
  /\ urlBody = <<>>
  /\ sanitized = {}

\* ---------------------------------------------------------------- download_markdown
\* lines 276-299: argument check, getConfig, axios.get issued
DownloadStart(url, subdirectory) ==
  /\ CanDispatch
  /\ served' = served + 1
  /\ IF ~IsValidParam(url)
     THEN /\ out' = Thrown("download_markdown", "InvalidParams")
          /\ calls' = <<>>
          /\ UNCHANGED <<dirs, cfg, pending>>
     ELSE LET g == getConfig(dirs, readonly, env, cfg) IN
          /\ dirs' = g.dirs
          /\ cfg' = g.cfg
          /\ calls' = <<GetConfigCall(cfg, g)>>
          /\ pending' = Suspend(
               [Invocation EXCEPT !.pc = "fetch", !.op = "download_markdown", !.url = url,
                                  !.subdirectory = subdirectory, !.config = g.val,
                                  !.io = {"config", "fetch"}])
          /\ out' = out
  /\ UNCHANGED <<codec, env, readonly, files, today>>

\* a download that creates the subdirectory before it looks at the response
DownloadFetched_MkdirFirst(r, response) ==
  LET filename == generateFilename(r.url.s, today)
      given == IsConfigRecord(r.config) /\ IsGiven(r.subdirectory)
      dir == IF given THEN PathJoin(r.config.dd, r.subdirectory.s) ELSE <<>>
      e == IF given THEN EnsureDir(dirs, readonly, dir) ELSE [ok |-> TRUE, dirs |-> dirs]
      fail(path) == /\ out' = Failure("download_markdown", path, r.io)
                    /\ pending' = End(r)
                    /\ dirs' = e.dirs
  IN
  /\ r.pc = "fetch"
  /\ calls' = <<>>
  /\ IF ~response.ok THEN fail(<<>>)
     ELSE IF ~IsConfigRecord(r.config) THEN fail(<<>>)
     ELSE IF given THEN
       IF ~e.ok THEN fail(dir)
       ELSE /\ dirs' = e.dirs
            /\ pending' = Resume(r,
                 [r EXCEPT !.pc = "write", !.path = dir, !.filename = filename,
                           !.body = response.body, !.io = r.io \cup {"mkdir", "write"}])
            /\ out' = out
     ELSE /\ dirs' = dirs
          /\ pending' = Resume(r,
               [r EXCEPT !.pc = "write", !.path = Normalize(r.config.dd),
                         !.filename = filename, !.body = response.body,
                         !.io = r.io \cup {"write"}])
          /\ out' = out
  /\ UNCHANGED <<codec, env, readonly, cfg, files, today, served>>

\* a download that reads the configuration again when the response arrives
DownloadFetched_Reread(r, response) ==
  LET filename == generateFilename(r.url.s, today)
      config == getConfig(dirs, readonly, env, cfg).val
      fail(path) == /\ out' = Failure("download_markdown", path, r.io)
                    /\ pending' = End(r)
                    /\ dirs' = dirs
  IN
  /\ r.pc = "fetch"
  /\ calls' = <<>>
  /\ IF ~response.ok THEN fail(<<>>)
     ELSE IF ~IsConfigRecord(config) THEN fail(<<>>)
     ELSE IF IsGiven(r.subdirectory) THEN
       LET dir == PathJoin(config.dd, r.subdirectory.s)
           e == EnsureDir(dirs, readonly, dir) IN
       IF ~e.ok THEN fail(dir)
       ELSE /\ dirs' = e.dirs
            /\ pending' = Resume(r,
                 [r EXCEPT !.pc = "write", !.path = dir, !.filename = filename,
                           !.body = response.body, !.io = r.io \cup {"mkdir", "write"}])
            /\ out' = out
     ELSE /\ dirs' = dirs
          /\ pending' = Resume(r,
               [r EXCEPT !.pc = "write", !.path = Normalize(config.dd),
                         !.filename = filename, !.body = response.body,
                         !.io = r.io \cup {"write"}])
          /\ out' = out
  /\ UNCHANGED <<codec, env, readonly, cfg, files, today, served>>

\* lines 295-309: the fetch comes back; file name, path, ensureDirSync, and
\* fs.writeFile issued
DownloadFetched(r, response) ==
  LET filename == generateFilename(r.url.s, today)
      fail(path) == /\ out' = Failure("download_markdown", path, r.io)
                    /\ pending' = End(r)
                    /\ dirs' = dirs
  IN
  /\ r.pc = "fetch"
  /\ calls' = <<>>
  /\ IF ~response.ok THEN fail(<<>>)
     ELSE IF ~IsConfigRecord(r.config) THEN fail(<<>>)
     ELSE IF IsGiven(r.subdirectory) THEN
       LET dir == PathJoin(r.config.dd, r.subdirectory.s)
           e == EnsureDir(dirs, readonly, dir) IN
       IF ~e.ok THEN fail(dir)
       ELSE /\ dirs' = e.dirs
            /\ pending' = Resume(r,
                 [r EXCEPT !.pc = "write", !.path = dir, !.filename = filename,
                           !.body = response.body, !.io = r.io \cup {"mkdir", "write"}])
            /\ out' = out
     ELSE /\ dirs' = dirs
          /\ pending' = Resume(r,
               [r EXCEPT !.pc = "write", !.path = Normalize(r.config.dd),
                         !.filename = filename, !.body = response.body,
                         !.io = r.io \cup {"write"}])
          /\ out' = out
  /\ UNCHANGED <<codec, env, readonly, cfg, files, today, served>>

\* lines 312-321: fs.writeFile runs, the handler returns
DownloadWrite(r) ==
  LET old == { f \in files : f.dir = r.path /\ f.name = r.filename } IN
  /\ r.pc = "write"
  /\ calls' = <<>>
  /\ pending' = End(r)
  /\ IF CanWriteFile(dirs, readonly, r.path, old # {}, TRUE)
     THEN /\ files' = (files \ old) \cup { [dir |-> r.path, name |-> r.filename, body |-> r.body] }
          /\ out' = Outcome("download_markdown", "ok", r.path, TRUE, r.filename, {}, r.io)
     ELSE /\ files' = files
          /\ out' = Failure("download_markdown", r.path, r.io)
  /\ UNCHANGED <<codec, env, readonly, dirs, cfg, today, served>>

\* ---------------------------------------------------------------- list_downloaded_files
\* lines 337-344: getConfig, the directory to list, fs.readdir issued
ListStart(subdirectory) ==
  LET g == getConfig(dirs, readonly, env, cfg)
      io == {"config"} IN
  /\ CanDispatch
  /\ served' = served + 1
  /\ dirs' = g.dirs
  /\ cfg' = g.cfg
  /\ calls' = <<GetConfigCall(cfg, g)>>
  /\ IF ~IsConfigRecord(g.val)
     THEN /\ out' = Failure("list_downloaded_files", <<>>, io)
          /\ pending' = pending
     ELSE /\ out' = out
          /\ pending' = Suspend(
               [Invocation EXCEPT !.pc = "readdir", !.op = "list_downloaded_files",
                                  !.config = g.val,
                                  !.path = IF IsGiven(subdirectory)
                                           THEN PathJoin(g.val.dd, subdirectory.s)
                                           ELSE g.val.dd,
                                  !.io = io \cup {"readdir"}])
  /\ UNCHANGED <<codec, env, readonly, files, today>>

\* a listing that answers for a missing directory with no names
ListReaddir_EmptyOnMissing(r) ==
  /\ r.pc = "readdir"
  /\ calls' = <<>>
  /\ pending' = End(r)
  /\ out' = Outcome("list_downloaded_files", "ok", r.path, TRUE, <<>>,
                    IF r.path \in dirs
                    THEN Readdir(dirs, cfg, env, files, r.path) ELSE {}, r.io)
  /\ UNCHANGED <<codec, env, readonly, dirs, cfg, files, today, served>>

\* lines 344-364: fs.readdir runs, the handler returns
ListReaddir(r) ==
  /\ r.pc = "readdir"
  /\ calls' = <<>>
  /\ pending' = End(r)
  /\ out' = IF r.path \in dirs
            THEN Outcome("list_downloaded_files", "ok", r.path, TRUE, <<>>,
                         Readdir(dirs, cfg, env, files, r.path), r.io)
            ELSE Failure("list_downloaded_files", r.path, r.io)
  /\ UNCHANGED <<codec, env, readonly, dirs, cfg, files, today, served>>

\* ---------------------------------------------------------------- set_download_directory
\* lines 368-380: argument check, fs.access issued
SetStart(directory) ==
  /\ CanDispatch
  /\ served' = served + 1
  /\ calls' = <<>>
  /\ IF ~IsValidParam(directory)
     THEN /\ out' = Thrown("set_download_directory", "InvalidParams")
          /\ pending' = pending
     ELSE /\ out' = out
          /\ pending' = Suspend(
               [Invocation EXCEPT !.pc = "access", !.op = "set_download_directory",
                                  !.directory = directory, !.io = {"access"}])
  /\ UNCHANGED <<codec, env, readonly, dirs, cfg, files, today>>

\* lines 380-406: fs.access runs; getConfig, the assignment, saveConfig; the
\* handler returns
SetAccess(r) ==
  LET directory == r.directory.s
      g == getConfig(dirs, readonly, env, cfg)
      config == AssignDownloadDirectory(g.val, directory)
      sv == saveConfig(g.dirs, readonly, env, g.cfg, config) IN
  /\ r.pc = "access"
  /\ pending' = End(r)
  /\ IF ~Access(dirs, readonly, directory)
     THEN /\ out' = Failure("set_download_directory", directory, r.io)
          /\ calls' = <<>>
          /\ UNCHANGED <<dirs, cfg>>
     ELSE IF AssignThrows(g.val)
     THEN /\ out' = Failure("set_download_directory", directory, r.io \cup {"config"})
          /\ calls' = <<GetConfigCall(cfg, g)>>
          /\ dirs' = g.dirs
          /\ cfg' = g.cfg
     ELSE /\ out' = Outcome("set_download_directory", "ok", directory, TRUE, <<>>, {},
                            r.io \cup {"config"})
          /\ calls' = <<GetConfigCall(cfg, g), SaveConfigCall(g.cfg, config, sv)>>
          /\ dirs' = sv.dirs
          /\ cfg' = sv.cfg
  /\ UNCHANGED <<codec, env, readonly, files, today, served>>

\* ---------------------------------------------------------------- get_download_directory
\* lines 410-420: synchronous, and outside any try
GetDirectory ==
  LET g == getConfig(dirs, readonly, env, cfg) IN
  /\ CanDispatch
  /\ served' = served + 1
  /\ dirs' = g.dirs
  /\ cfg' = g.cfg
  /\ calls' = <<GetConfigCall(cfg, g)>>
  /\ out' = IF ReadThrows(g.val)
            THEN [Thrown("get_download_directory", "TypeError") EXCEPT !.io = {"config"}]
            ELSE Outcome("get_download_directory", "ok", g.val.dd, g.val.ddKind = "string",
                         <<>>, {}, {"config"})
  /\ UNCHANGED <<codec, env, readonly, files, today, pending>>

\* ---------------------------------------------------------------- create_subdirectory
\* lines 423-438: argument check, getConfig, path.join, fs.ensureDir issued
CreateStart(name) ==
  /\ CanDispatch
  /\ served' = served + 1
  /\ IF ~IsValidParam(name)
     THEN /\ out' = Thrown("create_subdirectory", "InvalidParams")
          /\ calls' = <<>>
          /\ UNCHANGED <<dirs, cfg, pending>>
     ELSE LET g == getConfig(dirs, readonly, env, cfg) IN
          /\ dirs' = g.dirs
          /\ cfg' = g.cfg
          /\ calls' = <<GetConfigCall(cfg, g)>>
          /\ IF ~IsConfigRecord(g.val)
             THEN /\ out' = Failure("create_subdirectory", <<>>, {"config"})
                  /\ pending' = pending
             ELSE /\ out' = out
                  /\ pending' = Suspend(
                       [Invocation EXCEPT !.pc = "ensureDir", !.op = "create_subdirectory",
                                          !.config = g.val,
                                          !.path = PathJoin(g.val.dd, name.s),
                                          !.io = {"config", "mkdir"}])
  /\ UNCHANGED <<codec, env, readonly, files, today>>

\* lines 438-459: fs.ensureDir runs, the handler returns
CreateEnsure(r) ==
  LET e == EnsureDir(dirs, readonly, r.path) IN
  /\ r.pc = "ensureDir"
  /\ calls' = <<>>
  /\ pending' = End(r)
  /\ dirs' = e.dirs
  /\ out' = IF e.ok
            THEN Outcome("create_subdirectory", "ok", r.path, TRUE, <<>>, {}, r.io)
            ELSE Failure("create_subdirectory", r.path, r.io)
  /\ UNCHANGED <<codec, env, readonly, cfg, files, today, served>>

\* ---------------------------------------------------------------- anything else
\* lines 462-465
UnknownTool ==
  /\ CanDispatch
  /\ served' = served + 1
  /\ out' = Thrown("unknown", "MethodNotFound")
  /\ calls' = <<>>
  /\ UNCHANGED <<codec, env, readonly, dirs, cfg, files, today, pending>>

\* midnight UTC passes. The date is read by generateFilename alone (line 141),
\* when the response arrives: the passing of a day is observed while a
\* download awaits its response
Tick ==
  /\ today < MaxDay
  /\ \E r \in Suspended : r.pc = "fetch"
  /\ today' = today + 1
  /\ calls' = <<>>
  /\ UNCHANGED <<codec, env, readonly, dirs, cfg, files, pending, out, served>>

Next ==
  \/ \E url \in Urls, subdirectory \in Subdirectories : DownloadStart(url, subdirectory)
  \/ \E r \in Suspended, response \in FetchOutcomes : DownloadFetched(r, response)
  \/ \E r \in Suspended : DownloadWrite(r)
  \/ \E subdirectory \in Subdirectories : ListStart(subdirectory)
  \/ \E r \in Suspended : ListReaddir(r)
  \/ \E directory \in Directories : SetStart(directory)
  \/ \E r \in Suspended : SetAccess(r)
  \/ GetDirectory
  \/ \E name \in Names : CreateStart(name)
  \/ \E r \in Suspended : CreateEnsure(r)
  \/ UnknownTool
  \/ Tick

Spec == Init /\ [][Next]_vars

\* ---------------------------------------------------------------- sanitizeFilename alone
\* the characters of the URL bodies: letters of both cases, a digit,
\* punctuation, a letter outside ASCII
BodyChars == { "a", "B", "7", ".", "/", "é" }

\* the sequences over S of length n
Words(S, n) == [1..n -> S]

\* the URL bodies: a word, by itself or after a scheme of its own
Bodies ==
  { prefix \o w : prefix \in { <<>>, HttpScheme, HttpsScheme },
                  w \in UNION { Words(BodyChars, n) : n \in 0..MaxBodyLen } }

\* what the caller puts in front of the body
Schemes == { <<>>, HttpScheme, HttpsScheme }

InitCodec ==
  /\ urlBody \in Bodies
  /\ sanitized = {}
  /\ env = [platform |-> "linux", APPDATA |-> <<>>]
  /\ readonly = {}
  /\ dirs = BaseDirs
  /\ cfg = NoFile
  /\ files = {}
  /\ today = 1
  /\ pending = EmptyBag
  /\ out = NoOutcome
  /\ calls = <<>>
  /\ served = 0

\* sanitizeFilename(scheme + urlBody)
Sanitize(scheme) ==
  /\ \A x \in sanitized : x.scheme # scheme
  /\ sanitized' = sanitized \cup
       { [scheme |-> scheme, name |-> sanitizeFilename(scheme \o urlBody)] }
  /\ UNCHANGED <<urlBody, env, readonly, dirs, cfg, files, today, pending, out, calls, served>>

NextCodec == \E scheme \in Schemes : Sanitize(scheme)

SpecCodec == InitCodec /\ [][NextCodec]_vars

\* ================================================================ properties
\* vocabulary of the properties, stated on the disk and the arguments alone
ToolNames ==
  { "download_markdown", "list_downloaded_files", "set_download_directory",
    "get_download_directory", "create_subdirectory" }

\* the argument is missing or is not a string
Malformed(a) == a.t # "string"

\* the path names nothing on disk, or something this user cannot write
NotWritable(p) == (p \notin dirs /\ p \notin RegularFiles) \/ p \in readonly

\* the directory exists or mkdir -p can make it
CanCreate(d, p) == p \in d \/ NearestExisting(d, p) \notin readonly

\* the root a get_download_directory issued now would answer with
CurrentRoot(d, c) == getConfig(d, readonly, env, c).val

\* ---------------------------------------------------------------- C1
\* C1: whenever getConfig returns a record or saveConfig finishes, the
\* directory the record names exists on disk (first load, load of an existing
\* file, fallback after a failure alike).
C1_DirectoryExists ==
  \A i \in DOMAIN calls : IsConfigRecord(calls[i].val) => calls[i].dirExists

\* ---------------------------------------------------------------- C2
\* C2: getConfig always returns a usable record (an object whose
\* downloadDirectory is a string) whatever config.json holds, and therefore
\* get_download_directory always succeeds and answers with a path.
C2_AlwaysUsableRecord ==
  /\ \A i \in DOMAIN calls : calls[i].fn = "getConfig" => IsConfigRecord(calls[i].val)
  /\ out.op = "get_download_directory" => out.status = "ok" /\ out.isText

\* ---------------------------------------------------------------- C3
\* C3: a set_download_directory whose directory does not exist or is not
\* writable ends in a result marked isError, changes neither config.json nor
\* the directories, and a get_download_directory answers after it what it
\* would have answered before it.
C3_FailedSetChangesNothing ==
  [][\A r \in Suspended :
       (SetAccess(r) /\ NotWritable(r.directory.s)) =>
         /\ out'.op = "set_download_directory"
         /\ out'.status = "isError"
         /\ cfg' = cfg
         /\ dirs' = dirs
         /\ CurrentRoot(dirs', cfg') = CurrentRoot(dirs, cfg)]_vars

\* a set_download_directory naming a directory that is not there has failed
C3_Witness ==
  /\ out.op = "set_download_directory"
  /\ out.status = "isError"
  /\ out.path \notin dirs
  /\ out.path \notin RegularFiles

\* ---------------------------------------------------------------- C4
\* C4: once a set_download_directory has confirmed P, the next
\* get_download_directory to end (no other request having ended in between)
\* answers P.
C4_GetAnswersConfirmed ==
  [][(/\ out.op = "set_download_directory"
      /\ out.status = "ok"
      /\ GetDirectory) =>
       (out'.status = "ok" /\ out'.isText /\ out'.path = out.path)]_vars

\* ---------------------------------------------------------------- C5
\* C5: a download_markdown, set_download_directory or create_subdirectory
\* whose required argument is missing or not a string is rejected with
\* InvalidParams and has done no I/O: config.json, the directories, the
\* artifacts and the suspended invocations are as before, and neither
\* getConfig nor saveConfig ran.
C5_MalformedRejectedBeforeIO ==
  [][(\/ \E url \in Urls, subdirectory \in Subdirectories :
           Malformed(url) /\ DownloadStart(url, subdirectory)
      \/ \E directory \in Directories : Malformed(directory) /\ SetStart(directory)
      \/ \E name \in Names : Malformed(name) /\ CreateStart(name)) =>
       /\ out'.status = "InvalidParams"
       /\ out'.io = {}
       /\ calls' = <<>>
       /\ UNCHANGED <<dirs, cfg, files, pending>>]_vars

\* a malformed request was rejected on a disk where a getConfig would have
\* created config.json
C5_Witness ==
  /\ out.status = "InvalidParams"
  /\ out.op \in {"download_markdown", "set_download_directory", "create_subdirectory"}
  /\ ~cfg.exists
  /\ CanCreate(dirs, CONFIG_DIR(env))

\* ---------------------------------------------------------------- C6
\* C6: a request for one of the five tools ends in a result (plain or marked
\* isError) unless its required argument is malformed; only a malformed
\* argument (InvalidParams) or an unknown tool name (MethodNotFound) ends in a
\* thrown error.
C6_OnlyMalformedThrows ==
  \/ out.status \in {"none", "ok", "isError"}
  \/ out.status = "InvalidParams" /\ out.op \in ToolNames
  \/ out.status = "MethodNotFound" /\ out.op \notin ToolNames

\* ---------------------------------------------------------------- C7
\* C7: the directory a download writes into, a listing reads and a
\* create_subdirectory creates lies inside the root the invocation read from
\* the configuration.
C7_StaysInsideRoot ==
  \A r \in Suspended :
    r.pc \in {"write", "readdir", "ensureDir"} => Inside(r.config.dd, r.path)

\* ---------------------------------------------------------------- C8
\* C8: while a download waits for its fs.writeFile, the directory it writes
\* into exists.
C8_ParentExistsAtWrite ==
  \A r \in Suspended : r.pc = "write" => r.path \in dirs

\* ---------------------------------------------------------------- C9
\* what C9 says of a getConfig call that found no config.json
BootstrapDone(call, d, c) ==
  /\ call.how = "bootstrap"
  /\ call.val = MarkdownDownloaderConfig(getDefaultDownloadDir(env))
  /\ call.dirExists
  /\ c.exists
  /\ getDefaultDownloadDir(env) \in d

\* what C9 says of the getConfig call that follows one that found no
\* config.json: the same record, config.json untouched
SecondLoadSame ==
  (/\ Len(calls) = 1 /\ calls[1].fresh
   /\ calls' # <<>>) =>
     (calls'[1].val = calls[1].val /\ ~calls'[1].wrote)

C10_OnlyValidSetChangesConfig ==
  [][cfg.exists =>
       /\ cfg'.exists
       /\ cfg' # cfg =>
            \E r \in Suspended : SetAccess(r) /\ ~NotWritable(r.directory.s)]_vars

\* a request other than set_download_directory has read an existing
\* config.json that does not parse to a record
C10_Witness ==
  /\ cfg.exists
  /\ Len(calls) = 1
  /\ calls[1].how = "fallback"
  /\ ~calls[1].fresh

\* ---------------------------------------------------------------- C11
\* the days of the run
Days == 1..MaxDay

\* the file name of each URL on each day
FilenameOn ==
  { [url |-> u.s, day |-> d, name |-> generateFilename(u.s, d)] :
      u \in { v \in Urls : v.t = "string" }, d \in Days }

\* C11: a download that writes its artifact leaves exactly one artifact at
\* its path, holding the body it fetched (so of two downloads of one URL into
\* one directory on one day the later write is what remains), and leaves in
\* place, as a different file, the artifact of the same URL in the same
\* directory from any other day.
C11_OneArtifactPerUrlAndDay ==
  [][\A r \in Suspended :
       (r.pc = "write" /\ DownloadWrite(r) /\ out'.status = "ok") =>
         LET mine == { n \in FilenameOn : n.url = r.url.s /\ n.name = r.filename } IN
         /\ mine # {}
         /\ { f \in files' : f.dir = r.path /\ f.name = r.filename }
              = { [dir |-> r.path, name |-> r.filename, body |-> r.body] }
         /\ \A m \in mine, n \in FilenameOn :
              (n.url = m.url /\ n.day # m.day) =>
                \A f \in files :
                  (f.dir = r.path /\ f.name = n.name) =>
                    (f \in files' /\ f.name # r.filename)]_vars

\* two downloads of one URL into one directory on two days have left two
\* artifacts
C11_Witness ==
  \E f \in files, g \in files :
    /\ f.dir = g.dir
    /\ f.name = generateFilename(ExampleUrl, 1)
    /\ g.name = generateFilename(ExampleUrl, MaxDay)
    /\ f.name # g.name

\* ---------------------------------------------------------------- C12
\* C12: a listing whose directory does not exist when it is read returns a
\* result marked isError that names that directory, never a list, and the
\* directory is not created: not by the read, and not, when it is a
\* subdirectory of the root, by the step that received the request.
C12_MissingDirectoryIsSoftFailure ==
  [][/\ \A r \in Suspended :
          (r.pc = "readdir" /\ r.path \notin dirs /\ ListReaddir(r)) =>
            /\ out'.op = "list_downloaded_files" /\ out'.status = "isError"
            /\ out'.path = r.path /\ out'.entries = {}
            /\ r.path \notin dirs'
     /\ (served' # served /\ \E subdirectory \in Subdirectories : ListStart(subdirectory)) =>
          \A q \in BagToSet(pending') :
            (q.pc = "readdir" /\ q.path # q.config.dd /\ q.path \notin dirs) =>
              q.path \notin dirs']_vars

\* a subdirectory never created under an existing root was listed
C12_Witness ==
  /\ out.op = "list_downloaded_files" /\ out.status = "isError"
  /\ "readdir" \in out.io
  /\ out.path \notin dirs
  /\ Dirname(out.path) \in dirs

\* ---------------------------------------------------------------- C13
\* C13: create_subdirectory for a directory that is already there (as after
\* an earlier invocation with the same name under the same root) returns
\* success naming that directory, and neither the step that receives the
\* request nor the one that creates changes the directory tree.
C13_CreateIsIdempotent ==
  [][/\ \A r \in Suspended :
          (r.pc = "ensureDir" /\ r.path \in dirs /\ CreateEnsure(r)) =>
            /\ out'.op = "create_subdirectory" /\ out'.status = "ok"
            /\ out'.path = r.path
            /\ dirs' = dirs
     /\ (served' # served /\ \E name \in Names : CreateStart(name)) =>
          \A q \in BagToSet(pending') :
            (q.pc = "ensureDir" /\ q.path \in dirs) => dirs' = dirs]_vars

\* one create_subdirectory has returned success for a directory and another
\* for the same directory is about to run fs.ensureDir
C13_Witness ==
  /\ out.op = "create_subdirectory" /\ out.status = "ok"
  /\ out.path \in dirs
  /\ \E r \in Suspended : r.pc = "ensureDir" /\ r.path = out.path /\ r.config = CurrentRoot(dirs, cfg)

\* ---------------------------------------------------------------- C14
\* another set_download_directory with a valid directory is in flight beside
\* r, or was the invocation that ended last
Racing(r) ==
  \/ \E q \in BagToSet(End(r)) : q.pc = "access" /\ ~NotWritable(q.directory.s)
  \/ out.op = "set_download_directory" /\ out.status \in {"ok", "isError"}

\* C14: of two concurrent set_download_directory invocations with valid
\* directories each returns its confirmation, and when one has saved,
\* config.json names its directory (so that after both, it names the
\* directory of the one that saved last).
C14_BothConfirmedLastWriterWins ==
  [][\A r \in Suspended :
       (r.pc = "access" /\ ~NotWritable(r.directory.s) /\ Racing(r) /\ SetAccess(r)) =>
         /\ out'.op = "set_download_directory" /\ out'.status = "ok"
         /\ out'.path = r.directory.s
         /\ cfg'.exists /\ IsConfigRecord(cfg'.val) /\ cfg'.val.dd = r.directory.s]_vars

\* ---------------------------------------------------------------- C15
\* the directory a download with this root and this subdirectory argument
\* writes into
Target(root, subdirectory) ==
  IF subdirectory.t = "string" /\ subdirectory.s # <<>>
  THEN PathJoin(root, subdirectory.s)
  ELSE Normalize(root)

\* C15: a download reads the configuration once, when it starts (from a
\* readable, parseable config.json it takes the record the file holds at that
\* moment); no later step, a set_download_directory least of all, changes the
\* record it holds; the directory it writes into is the one that record and
\* its subdirectory argument give, and its artifact appears there and nowhere
\* else.
C15_RootIsTheOneRead ==
  [][/\ \A q \in BagToSet(pending') :
          q.op = "download_markdown" =>
            /\ \/ q \in Suspended
               \/ /\ q.pc = "fetch" /\ served' = served + 1
                  /\ (cfg.exists /\ cfg.r /\ cfg.json) => q.config = cfg.val
               \/ /\ q.pc = "write"
                  /\ \E r \in Suspended :
                       /\ r.pc = "fetch" /\ pending' = Resume(r, q)
                       /\ q.config = r.config /\ q.subdirectory = r.subdirectory
            /\ q.pc = "write" => q.path = Target(q.config.dd, q.subdirectory)
     /\ \A r \in Suspended :
          (r.pc = "write" /\ DownloadWrite(r) /\ out'.status = "ok") =>
            /\ out'.path = Target(r.config.dd, r.subdirectory)
            /\ \A f \in files' \ files : f.dir = Target(r.config.dd, r.subdirectory)
            /\ \E f \in files' : f.dir = Target(r.config.dd, r.subdirectory)]_vars

\* a download that read the default root has written there although a
\* set_download_directory completed before it did: config.json names another
\* directory
C15_Witness ==
  /\ out.op = "download_markdown" /\ out.status = "ok"
  /\ out.path = getDefaultDownloadDir(env)
  /\ \E f \in files : f.dir = out.path
  /\ cfg.exists /\ cfg.r /\ cfg.json /\ IsConfigRecord(cfg.val)
  /\ cfg.val.dd = DataDir

\* ---------------------------------------------------------------- C16
\* C16: config.json, once present, is present after every step; it comes
\* into being only by a getConfig or saveConfig call that wrote it, and every
\* getConfig or saveConfig call that changes the file leaves it present.
C16_AbsentToPresentIsOneWay ==
  [][/\ cfg.exists => cfg'.exists
     /\ (~cfg.exists /\ cfg'.exists) =>
          \E i \in DOMAIN calls' : calls'[i].fresh /\ calls'[i].wrote
     /\ (\E i \in DOMAIN calls' : calls'[i].wrote) => cfg'.exists]_vars

\* a call found config.json absent and wrote it
C16_Witness ==
  /\ cfg.exists
  /\ \E i \in DOMAIN calls : calls[i].fresh /\ calls[i].wrote

\* ---------------------------------------------------------------- C17
\* a string begins with a scheme of its own
BeginsWithScheme(s) ==
  \/ Len(s) >= 7 /\ SubSeq(s, 1, 7) = <<"h","t","t","p",":","/","/">>
  \/ Len(s) >= 8 /\ SubSeq(s, 1, 8) = <<"h","t","t","p","s",":","/","/">>

\* s with every character outside ASCII letters and digits replaced by one
\* dash, then lowercased
Dashed(s) ==
  [i \in 1..Len(s) |->
     IF \E k \in 1..26 : s[i] = Upper[k] THEN Lower[CHOOSE k \in 1..26 : s[i] = Upper[k]]
     ELSE IF (\E k \in 1..26 : s[i] = Lower[k]) \/ (\E k \in 1..10 : s[i] = Digits[k])
     THEN s[i]
     ELSE "-"]

\* C17 as stated: for every URL body, sanitizeFilename of the body, of
\* http:// + body and of https:// + body is the body with every character
\* outside ASCII letters and digits replaced by one dash, lowercased.
C17_SameForEveryBody ==
  \A x \in sanitized : x.name = Dashed(urlBody)

\* C17, amended: the same for every URL body that does not itself begin with
\* http:// or https://.
C17_SameForBodyWithoutScheme ==
  ~BeginsWithScheme(urlBody) =>
    \A x \in sanitized : x.name = Dashed(urlBody)

\* a body of two characters outside the ASCII letters and digits, with no
\* scheme of its own, has been sanitized bare and behind both schemes
C17_Witness ==
  /\ ~BeginsWithScheme(urlBody)
  /\ Len(urlBody) = 2
  /\ Dashed(urlBody) = <<"-", "-">>
  /\ { x.scheme : x \in sanitized } = Schemes

\* ---------------------------------------------------------------- C18
\* C18: a download whose fetch fails returns a result marked isError and the
\* step changes neither the artifacts nor the directories; the step that
\* received the request wrote no artifact and created no directory below the
\* root it read; an invocation reaches its write only from a response that
\* succeeded, and artifacts change only in such a write.
C18_NothingWrittenBeforeFetchSucceeds ==
  [][/\ \A r \in Suspended, response \in FetchOutcomes :
          (r.pc = "fetch" /\ ~response.ok /\ DownloadFetched(r, response)) =>
            /\ out'.op = "download_markdown" /\ out'.status = "isError"
            /\ files' = files
            /\ dirs' = dirs
     /\ \A q \in BagToSet(pending') :
          (q.op = "download_markdown" /\ q.pc = "fetch" /\ served' # served) =>
            /\ files' = files
            /\ IsConfigRecord(q.config) =>
                 \A p \in dirs' \ dirs :
                   ~Inside(q.config.dd, p) \/ p = Normalize(q.config.dd)
     /\ \A q \in BagToSet(pending') \ Suspended :
          (q.op = "download_markdown" /\ q.pc = "write") =>
            \E r \in Suspended, response \in FetchOutcomes :
              r.pc = "fetch" /\ response.ok /\ q.body = response.body
     /\ files' # files =>
          \E r \in Suspended :
            /\ r.op = "download_markdown" /\ r.pc = "write" /\ pending' = End(r)
            /\ files' \ files = { [dir |-> r.path, name |-> r.filename, body |-> r.body] }]_vars

\* the one request dispatched was a download on a well-formed configuration;
\* its fetch failed: the root is there, with no artifact and no directory
\* below it
C18_Witness ==
  /\ served = 1 /\ pending = EmptyBag
  /\ out.op = "download_markdown" /\ out.status = "isError" /\ "fetch" \in out.io
  /\ cfg.exists /\ cfg.r /\ cfg.json /\ IsConfigRecord(cfg.val)
  /\ Normalize(cfg.val.dd) \in dirs
  /\ files = {}
  /\ \A p \in dirs : Inside(cfg.val.dd, p) => p = Normalize(cfg.val.dd)

====
